---- MODULE Spec2Model ----
(***************************************************************************)
(* TURN allocation manager (turn/src/allocation/allocation_manager.rs).    *)
(*                                                                         *)
(* The Manager owns two maps, each behind its own tokio Mutex: the         *)
(* allocation map FiveTuple -> Arc<Allocation> and the reservation map     *)
(* token -> port.  Caller tasks run the Manager's async operations; every  *)
(* `.await` is a suspension point, so an operation is a sequence of steps  *)
(* and the steps of different tasks interleave.  A critical section that   *)
(* takes a lock, touches the map and drops the guard without awaiting is   *)
(* one step; Manager::close keeps the guard across the awaits of its loop  *)
(* and is several steps with the lock held.                                *)
(*                                                                         *)
(* Allocation (allocation/mod.rs) is not among the sources at hand: its    *)
(* close, its lifetime timer and the timer's self-removal are modelled     *)
(* from the written specification of the repository.                       *)
(***************************************************************************)
EXTENDS Integers, FiniteSets, Sequences, TLC

\* Caller tasks running Manager operations concurrently.
Procs == {"p1", "p2"}

\* FiveTuples used as keys of the allocation map.
Keys == {"k1", "k2"}

\* Usernames carried by allocations.
Users == {"user", "user2"}

\* Number of Allocation objects ever constructed in a behaviour.
MaxAllocs == 2

\* An Arc<Allocation> is identified by the order of its construction.
Handles == 1..MaxAllocs

\* Lifetimes passed to create_allocation: zero, or some positive duration.
Lifetimes == {"zero", "positive"}

\* Reservation tokens and ports.
Tokens == {"t1", "t2"}
Ports == {"port1", "port2"}

\* Seconds a reservation lives (Duration::from_secs(30)).
RESERVATION_SECS == 30

\* The clock advances in steps of TickSecs up to MaxTime seconds.
TickSecs == 10
MaxTime == 50

VARIABLES
    allocations,   \* Manager.allocations: partial map FiveTuple -> handle
    lock,          \* holders of the allocation-map Mutex ({} when free)
    allocs,        \* the Allocation objects constructed so far, by handle
    pc,            \* position of each caller task
    loc,           \* the locals of each caller task's current operation
    reservations,  \* Manager.reservations: partial map token -> port
    res_timers,    \* spawned reservation expiry tasks still asleep
    last_insert,   \* time of the latest insertion of each token
    now,           \* the clock, in seconds
    permissions,   \* an allocation's permissions: the peer IPs they admit
    channel_bindings, \* an allocation's channel binds: number -> peer address
    relayed        \* the last datagram the packet handler took, and its output

vars == <<allocations, lock, allocs, pc, loc, reservations, res_timers,
          last_insert, now, permissions, channel_bindings, relayed>>

alloc_vars == <<allocations, lock, allocs>>
res_vars == <<reservations, res_timers, last_insert, now>>
pkt_vars == <<permissions, channel_bindings, relayed>>

----------------------------------------------------------------------------
\* HashMap helpers.

\* HashMap::insert: the value under k is replaced.
map_insert(m, k, v) == [x \in DOMAIN m \cup {k} |-> IF x = k THEN v ELSE m[x]]

\* HashMap::remove: the entry under k, if any, is dropped.
map_remove(m, k) == [x \in DOMAIN m \ {k} |-> m[x]]

\* HashMap::values.
map_values(m) == {m[x] : x \in DOMAIN m}

\* Manager::get_allocation: Some(handle) as {handle}, None as {}.
get_allocation(k) == IF k \in DOMAIN allocations THEN {allocations[k]} ELSE {}

\* Manager::get_reservation: Some(port) as {port}, None as {}.
get_reservation(t) == IF t \in DOMAIN reservations THEN {reservations[t]} ELSE {}

----------------------------------------------------------------------------
\* Allocation.

\* Allocation::new followed by the back-reference assignment.
allocation_new(k, u) ==
    [five_tuple |-> k, username |-> u, closed |-> FALSE, timer |-> "none",
     returned |-> FALSE, releases |-> 0]

\* Allocation::close succeeds only on an allocation that is not yet closed.
allocation_close_ok(h) == ~allocs[h].closed

\* Allocation::close: an error on an allocation that is already closed;
\* otherwise the allocation is marked closed, its relay socket is released and
\* its lifetime task, asleep or waiting for the map lock, is cancelled.
allocation_close(a, h) ==
    IF a[h].closed THEN a
    ELSE [a EXCEPT ![h].closed = TRUE,
                   ![h].releases = @ + 1,
                   ![h].timer = IF @ \in {"armed", "fired"} THEN "cancelled" ELSE @]

\* Allocation::start: arms the lifetime timer.
allocation_start(a, h) == [a EXCEPT ![h].timer = "armed"]

----------------------------------------------------------------------------
\* Caller tasks.

\* The locals of an operation that has just been called.
fresh_locals(op) ==
    [op |-> op, key |-> "k1", user |-> "user", h |-> {}, to_delete |-> {},
     pending |-> {}, token |-> "t1", port |-> {}, res |-> "pending"]

idle(p) == pc[p] \in {"idle", "done"}

lock_free == lock = {}

\* Operation op is called and moves to its first suspension point.
call(p, op, at, locals) ==
    /\ idle(p)
    /\ pc' = [pc EXCEPT ![p] = at]
    /\ loc' = [loc EXCEPT ![p] = locals]

\* An operation returns r: its locals are dropped, its name and result stay
\* until the task calls the next operation.
return(p, r) ==
    /\ pc' = [pc EXCEPT ![p] = "done"]
    /\ loc' = [loc EXCEPT ![p] = [fresh_locals(loc[p].op) EXCEPT !.res = r]]

\* An operation that is called and returns r without being suspended.
call_return(p, op, r) ==
    /\ idle(p)
    /\ pc' = [pc EXCEPT ![p] = "done"]
    /\ loc' = [loc EXCEPT ![p] = [fresh_locals(op) EXCEPT !.res = r]]

Init ==
    /\ allocations = << >>
    /\ lock = {}
    /\ allocs = << >>
    /\ pc = [p \in Procs |-> "idle"]
    /\ loc = [p \in Procs |-> fresh_locals("none")]
    /\ reservations = << >>
    /\ res_timers = {}
    /\ last_insert = << >>
    /\ now = 0
    /\ permissions = {}
    /\ channel_bindings = << >>
    /\ relayed = {}

----------------------------------------------------------------------------
\* Manager::create_allocation.

\* Faulty variant: the duplicate check never finds anything.
is_duplicate_never(k) == FALSE

\* The duplicate check: get_allocation(&five_tuple).await.is_some().
is_duplicate(k) == get_allocation(k) # {}

\* Faulty variant: the duplicate check comes before the lifetime check.
create_allocation_check_dupe_first(p, k, lifetime, u, ok) ==
    /\ idle(p)
    /\ lock_free
    /\ IF is_duplicate(k)
       THEN /\ call_return(p, "create_allocation", "ErrDupeFiveTuple")
            /\ UNCHANGED allocs
       ELSE IF lifetime = "zero"
       THEN /\ call_return(p, "create_allocation", "ErrLifetimeZero")
            /\ UNCHANGED allocs
       ELSE IF ok
       THEN LET h == Cardinality(DOMAIN allocs) + 1 IN
            /\ h \in Handles
            /\ allocs' = allocation_start(
                   map_insert(allocs, h, allocation_new(k, u)), h)
            /\ call(p, "create_allocation", "create_insert",
                    [fresh_locals("create_allocation") EXCEPT
                        !.key = k, !.user = u, !.h = {h}])
       ELSE /\ call_return(p, "create_allocation", "ErrRelay")
            /\ UNCHANGED allocs
    /\ UNCHANGED <<allocations, lock, res_vars, pkt_vars>>

\* Faulty variant: the result of allocate_conn is not checked, and the
\* allocation is constructed and started whether or not a relay socket came
\* back.
create_allocation_check_conn_unchecked(p, k, lifetime, u, ok) ==
    /\ idle(p)
    /\ IF lifetime = "zero"
       THEN /\ call_return(p, "create_allocation", "ErrLifetimeZero")
            /\ UNCHANGED allocs
       ELSE /\ lock_free
            /\ IF is_duplicate(k)
               THEN /\ call_return(p, "create_allocation", "ErrDupeFiveTuple")
                    /\ UNCHANGED allocs
               ELSE LET h == Cardinality(DOMAIN allocs) + 1 IN
                    /\ h \in Handles
                    /\ allocs' = allocation_start(
                           map_insert(allocs, h, allocation_new(k, u)), h)
                    /\ call(p, "create_allocation", "create_insert",
                            [fresh_locals("create_allocation") EXCEPT
                                !.key = k, !.user = u, !.h = {h}])
    /\ UNCHANGED <<allocations, lock, res_vars, pkt_vars>>

\* Faulty variant: a.start(lifetime) is left out, and the allocation is handed
\* on with no lifetime timer.
create_allocation_check_not_started(p, k, lifetime, u, ok) ==
    /\ idle(p)
    /\ IF lifetime = "zero"
       THEN /\ call_return(p, "create_allocation", "ErrLifetimeZero")
            /\ UNCHANGED allocs
       ELSE /\ lock_free
            /\ IF is_duplicate(k)
               THEN /\ call_return(p, "create_allocation", "ErrDupeFiveTuple")
                    /\ UNCHANGED allocs
               ELSE IF ok
               THEN LET h == Cardinality(DOMAIN allocs) + 1 IN
                    /\ h \in Handles
                    /\ allocs' = map_insert(allocs, h, allocation_new(k, u))
                    /\ call(p, "create_allocation", "create_insert",
                            [fresh_locals("create_allocation") EXCEPT
                                !.key = k, !.user = u, !.h = {h}])
               ELSE /\ call_return(p, "create_allocation", "ErrRelay")
                    /\ UNCHANGED allocs
    /\ UNCHANGED <<allocations, lock, res_vars, pkt_vars>>

\* create_allocation up to the construction of the allocation: the lifetime
\* check, the duplicate check in get_allocation's own critical section, then
\* relay_addr_generator.allocate_conn(true, requested_port).await?, which may
\* fail, and on success Allocation::new, a.start(lifetime).await and
\* a.packet_handler().await.  Nothing after the duplicate check reads the map,
\* and the lifetime timer is armed before the allocation is in the map.
create_allocation_check(p, k, lifetime, u, ok) ==
    /\ idle(p)
    /\ IF lifetime = "zero"
       THEN /\ call_return(p, "create_allocation", "ErrLifetimeZero")
            /\ UNCHANGED allocs
       ELSE /\ lock_free
            /\ IF is_duplicate(k)
               THEN /\ call_return(p, "create_allocation", "ErrDupeFiveTuple")
                    /\ UNCHANGED allocs
               ELSE IF ok
               THEN LET h == Cardinality(DOMAIN allocs) + 1 IN
                    /\ h \in Handles
                    /\ allocs' = allocation_start(
                           map_insert(allocs, h, allocation_new(k, u)), h)
                    /\ call(p, "create_allocation", "create_insert",
                            [fresh_locals("create_allocation") EXCEPT
                                !.key = k, !.user = u, !.h = {h}])
               ELSE /\ call_return(p, "create_allocation", "ErrRelay")
                    /\ UNCHANGED allocs
    /\ UNCHANGED <<allocations, lock, res_vars, pkt_vars>>

\* Faulty variant: Ok(a) is returned without the insertion.
create_allocation_insert_lost(p) ==
    /\ pc[p] = "create_insert"
    /\ lock_free
    /\ \E h \in loc[p].h : allocs' = [allocs EXCEPT ![h].returned = TRUE]
    /\ return(p, "Ok")
    /\ UNCHANGED <<allocations, lock, res_vars, pkt_vars>>

\* The insertion, in its own critical section, and the return of Ok(a).
create_allocation_insert(p) ==
    /\ pc[p] = "create_insert"
    /\ lock_free
    /\ \E h \in loc[p].h :
          /\ allocations' = map_insert(allocations, loc[p].key, h)
          /\ allocs' = [allocs EXCEPT ![h].returned = TRUE]
    /\ return(p, "Ok")
    /\ UNCHANGED <<lock, res_vars, pkt_vars>>

----------------------------------------------------------------------------
\* Manager::delete_allocation.

\* self.allocations.lock().await.remove(five_tuple): with nothing removed the
\* operation is over.
delete_allocation_remove(p, k) ==
    /\ lock_free
    /\ allocations' = map_remove(allocations, k)
    /\ IF get_allocation(k) = {}
       THEN call_return(p, "delete_allocation", "Unit")
       ELSE call(p, "delete_allocation", "delete_close",
                 [fresh_locals("delete_allocation") EXCEPT
                     !.key = k, !.h = get_allocation(k)])
    /\ UNCHANGED <<lock, allocs, res_vars, pkt_vars>>

\* Faulty variant: the removed allocation is dropped without being closed.
delete_allocation_close_skipped(p) ==
    /\ pc[p] = "delete_close"
    /\ return(p, "Unit")
    /\ UNCHANGED <<alloc_vars, res_vars, pkt_vars>>

\* a.close().await, its error logged and dropped.
delete_allocation_close(p) ==
    /\ pc[p] = "delete_close"
    /\ \E h \in loc[p].h : allocs' = allocation_close(allocs, h)
    /\ return(p, "Unit")
    /\ UNCHANGED <<allocations, lock, res_vars, pkt_vars>>

----------------------------------------------------------------------------
\* Manager::delete_allocations_by_username.

\* Faulty variant: every allocation matches.
match_name_any(h, name) == TRUE

\* allocation.username.text == name
match_name(h, name) == allocs[h].username = name

\* Faulty variant: retain keeps the matching entries (the closure returns
\* match_name).
retain_inverted(m, name) ==
    [k \in {x \in DOMAIN m : allocs[m[x]].username = name} |-> m[k]]

\* allocations.retain(..): the entries that stay.
retain(m, name) ==
    [k \in {x \in DOMAIN m : ~match_name(m[x], name)} |-> m[k]]

\* The allocations retain pushes to to_delete.
retain_to_delete(m, name) == {m[k] : k \in {x \in DOMAIN m : match_name(m[x], name)}}

\* The critical section: the map is partitioned by username.  join_all over
\* no futures is ready at once.
delete_allocations_by_username_retain(p, name) ==
    /\ lock_free
    /\ allocations' = retain(allocations, name)
    /\ LET to_delete == retain_to_delete(allocations, name) IN
       IF to_delete = {}
       THEN call_return(p, "delete_allocations_by_username", "Unit")
       ELSE call(p, "delete_allocations_by_username", "bulk_close",
                 [fresh_locals("delete_allocations_by_username") EXCEPT
                     !.user = name, !.to_delete = to_delete, !.pending = to_delete])
    /\ UNCHANGED <<lock, allocs, res_vars, pkt_vars>>

\* Faulty variant: the first close error ends the operation, as `?` would.
delete_allocations_by_username_close_abort(p) ==
    /\ pc[p] = "bulk_close"
    /\ \E h \in loc[p].pending :
          IF allocation_close_ok(h)
          THEN /\ allocs' = allocation_close(allocs, h)
               /\ IF loc[p].pending = {h}
                  THEN return(p, "Unit")
                  ELSE /\ loc' = [loc EXCEPT ![p].pending = @ \ {h}]
                       /\ UNCHANGED pc
          ELSE /\ return(p, "ErrClosed")
               /\ UNCHANGED allocs
    /\ UNCHANGED <<allocations, lock, res_vars, pkt_vars>>

\* Faulty variant: the allocations to close are looked up by username again
\* when they are closed, instead of being the ones the critical section
\* removed.
delete_allocations_by_username_close_rescan(p) ==
    /\ pc[p] = "bulk_close"
    /\ \E h \in loc[p].pending :
          /\ allocs' = [x \in DOMAIN allocs |->
                           IF x = h \/ (x \in map_values(allocations) /\ match_name(x, loc[p].user))
                           THEN allocation_close(allocs, x)[x]
                           ELSE allocs[x]]
          /\ IF loc[p].pending = {h}
             THEN return(p, "Unit")
             ELSE /\ loc' = [loc EXCEPT ![p].pending = @ \ {h}]
                  /\ UNCHANGED pc
    /\ UNCHANGED <<allocations, lock, res_vars, pkt_vars>>

\* join_all: the victims are closed outside the lock, in any order, errors
\* logged and dropped; the operation returns when the last one is closed.
delete_allocations_by_username_close(p) ==
    /\ pc[p] = "bulk_close"
    /\ \E h \in loc[p].pending :
          /\ allocs' = allocation_close(allocs, h)
          /\ IF loc[p].pending = {h}
             THEN return(p, "Unit")
             ELSE /\ loc' = [loc EXCEPT ![p].pending = @ \ {h}]
                  /\ UNCHANGED pc
    /\ UNCHANGED <<allocations, lock, res_vars, pkt_vars>>

----------------------------------------------------------------------------
\* Manager::close.

\* Faulty variant: Manager::close empties the reservation map as well.
close_lock_clears_reservations(p) ==
    /\ lock_free
    /\ reservations' = << >>
    /\ LET values == map_values(allocations) IN
       IF values = {}
       THEN /\ call_return(p, "close", "Ok")
            /\ UNCHANGED lock
       ELSE /\ lock' = {p}
            /\ call(p, "close", "close_loop",
                    [fresh_locals("close") EXCEPT !.to_delete = values, !.pending = values])
    /\ UNCHANGED <<allocations, allocs, res_timers, last_insert, now, pkt_vars>>

\* let allocations = self.allocations.lock().await: the guard lives until the
\* function returns.  With an empty map the loop body never runs.
close_lock(p) ==
    /\ lock_free
    /\ LET values == map_values(allocations) IN
       IF values = {}
       THEN /\ call_return(p, "close", "Ok")
            /\ UNCHANGED lock
       ELSE /\ lock' = {p}
            /\ call(p, "close", "close_loop",
                    [fresh_locals("close") EXCEPT !.to_delete = values, !.pending = values])
    /\ UNCHANGED <<allocations, allocs, res_vars, pkt_vars>>

\* Faulty variant: a.close() waits for the allocation's lifetime task to end,
\* and a lifetime task whose sleep is over waits for the map lock.
close_loop_joins_timer(p) ==
    /\ pc[p] = "close_loop"
    /\ \E h \in loc[p].pending :
          /\ allocs[h].timer # "fired"
          /\ IF allocation_close_ok(h)
             THEN /\ allocs' = allocation_close(allocs, h)
                  /\ IF loc[p].pending = {h}
                     THEN /\ return(p, "Ok")
                          /\ lock' = {}
                     ELSE /\ loc' = [loc EXCEPT ![p].pending = @ \ {h}]
                          /\ UNCHANGED <<pc, lock>>
             ELSE /\ return(p, "ErrClosed")
                  /\ lock' = {}
                  /\ UNCHANGED allocs
    /\ UNCHANGED <<allocations, res_vars, pkt_vars>>

\* One iteration of `for a in allocations.values() { a.close().await?; }`, in
\* the map's iteration order (any): an error ends the operation at once.
close_loop(p) ==
    /\ pc[p] = "close_loop"
    /\ \E h \in loc[p].pending :
          IF allocation_close_ok(h)
          THEN /\ allocs' = allocation_close(allocs, h)
               /\ IF loc[p].pending = {h}
                  THEN /\ return(p, "Ok")
                       /\ lock' = {}
                  ELSE /\ loc' = [loc EXCEPT ![p].pending = @ \ {h}]
                       /\ UNCHANGED <<pc, lock>>
          ELSE /\ return(p, "ErrClosed")
               /\ lock' = {}
               /\ UNCHANGED allocs
    /\ UNCHANGED <<allocations, res_vars, pkt_vars>>

----------------------------------------------------------------------------
\* A caller closes an allocation through a handle create_allocation returned.
handle_close(p, h) ==
    /\ h \in DOMAIN allocs
    /\ allocs[h].returned
    /\ allocs' = allocation_close(allocs, h)
    /\ call_return(p, "handle_close", IF allocation_close_ok(h) THEN "Ok" ELSE "ErrClosed")
    /\ UNCHANGED <<allocations, lock, res_vars, pkt_vars>>

----------------------------------------------------------------------------
\* The lifetime timer task of an allocation.

\* The sleep of the armed timer elapses; the task now wants the map lock.
lifetime_timer_fire(h) ==
    /\ h \in DOMAIN allocs
    /\ allocs[h].timer = "armed"
    /\ allocs' = [allocs EXCEPT ![h].timer = "fired"]
    /\ UNCHANGED <<allocations, lock, pc, loc, res_vars, pkt_vars>>

\* Self-removal: under the map lock the entry keyed by the allocation's
\* five_tuple is removed, and the allocation closes its sockets.
lifetime_timer_expire(h) ==
    /\ h \in DOMAIN allocs
    /\ allocs[h].timer = "fired"
    /\ lock_free
    /\ allocations' = map_remove(allocations, allocs[h].five_tuple)
    /\ allocs' = [allocation_close(allocs, h) EXCEPT ![h].timer = "done"]
    /\ UNCHANGED <<lock, pc, loc, res_vars, pkt_vars>>

----------------------------------------------------------------------------
\* Reservations.

\* Manager::create_reservation up to its first await: the expiry task is
\* spawned and starts its 30 s sleep.
create_reservation_begin(p, t, port) ==
    /\ res_timers' = res_timers \cup {[token |-> t, deadline |-> now + RESERVATION_SECS]}
    /\ call(p, "create_reservation", "reserve_insert",
            [fresh_locals("create_reservation") EXCEPT !.token = t, !.port = {port}])
    /\ UNCHANGED <<alloc_vars, pkt_vars, reservations, last_insert, now>>

\* reservations.insert(reservation_token, port) under the reservation lock.
create_reservation_insert(p) ==
    /\ pc[p] = "reserve_insert"
    /\ \E port \in loc[p].port :
          reservations' = map_insert(reservations, loc[p].token, port)
    /\ last_insert' = map_insert(last_insert, loc[p].token, now)
    /\ return(p, "Unit")
    /\ UNCHANGED <<alloc_vars, pkt_vars, res_timers, now>>

\* Faulty variant: the expiry task removes nothing.
expire_reservation_noop(m, t) == m

\* What an expiry task does to the map once its sleep is over.
expire_reservation(m, t) == map_remove(m, t)

\* An expiry task wakes up, removes its token and ends.
reservation_timer_expire(tm) ==
    /\ tm \in res_timers
    /\ now >= tm.deadline
    /\ reservations' = expire_reservation(reservations, tm.token)
    /\ res_timers' = res_timers \ {tm}
    /\ UNCHANGED <<alloc_vars, pkt_vars, pc, loc, last_insert, now>>

\* The least element of a non-empty set of numbers.
min_of(S) == CHOOSE x \in S : \A y \in S : x <= y

\* Time passes, at most up to the next wake-up of an expiry task.  A task
\* whose sleep is over runs before the clock moves on, and the insertion of
\* create_reservation, which waits for nothing but the reservation lock, takes
\* no measurable time.
tick ==
    /\ now + TickSecs <= MaxTime
    /\ \A tm \in res_timers : tm.deadline > now
    /\ \A p \in Procs : pc[p] # "reserve_insert"
    /\ now' = min_of({now + TickSecs} \cup {tm.deadline : tm \in res_timers})
    /\ UNCHANGED <<alloc_vars, pkt_vars, pc, loc, reservations, res_timers, last_insert>>

----------------------------------------------------------------------------
\* The packet handler of one allocation: the task that reads the relay socket
\* and forwards what peers send to the client.

\* Peer transport addresses (hosts 127.0.0.ip); the last two are two ports
\* of one host.
Peers == {[ip |-> 1, port |-> 5001], [ip |-> 2, port |-> 5002],
          [ip |-> 2, port |-> 5003]}

PeerIps == {P.ip : P \in Peers}

\* Channel numbers lie in [0x4000, 0x7FFF].
MIN_CHANNEL_NUMBER == 16384
MAX_CHANNEL_NUMBER == 32767

ChannelNumbers == {MIN_CHANNEL_NUMBER, MIN_CHANNEL_NUMBER + 1}

\* Payloads of datagrams: up to MaxPayload bytes.
MaxPayload == 2
PayloadBytes == {0, 65}
Payloads == UNION {[1..n -> PayloadBytes] : n \in 0..MaxPayload}

\* Big-endian u16.
u16(n) == <<n \div 256, n % 256>>

\* The u16 at position i of raw.
read_u16(raw, i) == raw[i] * 256 + raw[i + 1]

\* The number of bytes that pad n bytes to a 4-byte boundary.
padding(n) == (4 - (n % 4)) % 4

\* s padded with zeros to a 4-byte boundary.
pad4(s) == s \o [i \in 1..padding(Len(s)) |-> 0]

\* Bitwise exclusive or of two naturals.
RECURSIVE xor(_, _)
xor(a, b) ==
    IF a = 0 THEN b
    ELSE IF b = 0 THEN a
    ELSE 2 * xor(a \div 2, b \div 2) + ((a + b) % 2)

\* ChannelData: u16 channel_number | u16 length | payload | padding.
channel_data_encode(number, data) ==
    u16(number) \o u16(Len(data)) \o pad4(data)

\* ChannelData::is_channel_data: the first two bytes are a channel number.
is_channel_data(raw) ==
    /\ Len(raw) >= 4
    /\ read_u16(raw, 1) >= MIN_CHANNEL_NUMBER
    /\ read_u16(raw, 1) <= MAX_CHANNEL_NUMBER

\* ChannelData::decode: the number and the data of a frame.
channel_data_number(raw) == read_u16(raw, 1)
channel_data_data(raw) == SubSeq(raw, 5, 4 + read_u16(raw, 3))

\* STUN: the message type of a Data indication, the magic cookie (as its two
\* u16 halves) and the attribute types XOR-PEER-ADDRESS and DATA.
DATA_INDICATION == 23
MAGIC_COOKIE_HI == 8466
MAGIC_COOKIE_LO == 42050
ATTR_XOR_PEER_ADDRESS == 18
ATTR_DATA == 19
STUN_HEADER_SIZE == 20

\* A STUN attribute: u16 type | u16 length | value | padding.
stun_attribute(t, v) == u16(t) \o u16(Len(v)) \o pad4(v)

\* The value of XOR-PEER-ADDRESS for an IPv4 peer: family, port xor the high
\* half of the cookie, address xor the cookie.
xor_peer_address(P) ==
    <<0, 1>> \o u16(xor(P.port, MAGIC_COOKIE_HI))
             \o u16(xor(127 * 256, MAGIC_COOKIE_HI))
             \o u16(xor(P.ip, MAGIC_COOKIE_LO))

\* The peer that a XOR-PEER-ADDRESS value stands for.
xor_peer_address_decode(v) ==
    [ip |-> xor(read_u16(v, 7), MAGIC_COOKIE_LO),
     port |-> xor(read_u16(v, 3), MAGIC_COOKIE_HI)]

\* A STUN Data indication from peer P with the given data: the header (type,
\* length of the attributes, cookie, a 12-byte transaction id, here zeros)
\* and the attributes XOR-PEER-ADDRESS and DATA.
data_indication(P, data) ==
    LET attrs == stun_attribute(ATTR_XOR_PEER_ADDRESS, xor_peer_address(P))
                    \o stun_attribute(ATTR_DATA, data)
    IN u16(DATA_INDICATION) \o u16(Len(attrs))
          \o u16(MAGIC_COOKIE_HI) \o u16(MAGIC_COOKIE_LO)
          \o [i \in 1..12 |-> 0] \o attrs

\* is_message: a STUN header with the magic cookie.
is_message(raw) ==
    /\ Len(raw) >= STUN_HEADER_SIZE
    /\ read_u16(raw, 5) = MAGIC_COOKIE_HI
    /\ read_u16(raw, 7) = MAGIC_COOKIE_LO

\* Message::decode and Getter::get_from: the values of the attributes of
\* type t found from position i on, in order.
RECURSIVE stun_attributes(_, _, _)
stun_attributes(raw, i, t) ==
    IF i + 3 > Len(raw) THEN <<>>
    ELSE LET n == read_u16(raw, i + 2)
             rest == stun_attributes(raw, i + 4 + n + padding(n), t)
         IN IF read_u16(raw, i) = t
            THEN <<SubSeq(raw, i + 4, i + 3 + n)>> \o rest
            ELSE rest

\* Add or refresh the permission for a peer IP.
add_permission(ip) ==
    /\ permissions' = permissions \cup {ip}
    /\ UNCHANGED <<alloc_vars, pc, loc, res_vars, channel_bindings, relayed>>

\* A permission's timer runs out and the permission is removed.
permission_expire(ip) ==
    /\ ip \in permissions
    /\ permissions' = permissions \ {ip}
    /\ UNCHANGED <<alloc_vars, pc, loc, res_vars, channel_bindings, relayed>>

\* The channel number bound to peer P, as a set of at most one number.
channel_of(P) == {n \in DOMAIN channel_bindings : channel_bindings[n] = P}

\* Bind a free channel number to a peer that has no channel yet.
add_channel_bind(n, P) ==
    /\ n \notin DOMAIN channel_bindings
    /\ channel_of(P) = {}
    /\ channel_bindings' = map_insert(channel_bindings, n, P)
    /\ UNCHANGED <<alloc_vars, pc, loc, res_vars, permissions, relayed>>

\* A channel bind's timer runs out and the bind is removed.
channel_bind_expire(n) ==
    /\ n \in DOMAIN channel_bindings
    /\ channel_bindings' = map_remove(channel_bindings, n)
    /\ UNCHANGED <<alloc_vars, pc, loc, res_vars, permissions, relayed>>

\* Faulty variant: permissions are looked up before channel binds.
packet_handler_frame_permission_first(P, data) ==
    IF P.ip \in permissions THEN data_indication(P, data)
    ELSE IF channel_of(P) # {}
    THEN channel_data_encode(CHOOSE n \in channel_of(P) : TRUE, data)
    ELSE <<>>

\* What the packet handler sends to the client for a datagram from peer P:
\* ChannelData when P has a channel bind, else a Data indication when P's IP
\* has a permission, else nothing (the empty sequence).
packet_handler_frame(P, data) ==
    IF channel_of(P) # {}
    THEN channel_data_encode(CHOOSE n \in channel_of(P) : TRUE, data)
    ELSE IF P.ip \in permissions THEN data_indication(P, data)
    ELSE <<>>

\* A datagram from peer P arrives on the relay socket and is handled.
packet_handler(P, data) ==
    /\ relayed' = {[peer |-> P, payload |-> data, out |-> packet_handler_frame(P, data)]}
    /\ UNCHANGED <<alloc_vars, pc, loc, res_vars, permissions, channel_bindings>>

\* One allocation's permissions, channel binds and packet handler.
PacketNext ==
    \/ \E ip \in PeerIps : add_permission(ip)
    \/ \E ip \in PeerIps : permission_expire(ip)
    \/ \E n \in ChannelNumbers, P \in Peers : add_channel_bind(n, P)
    \/ \E n \in ChannelNumbers : channel_bind_expire(n)
    \/ \E P \in Peers, data \in Payloads : packet_handler(P, data)

PacketSpec == Init /\ [][PacketNext]_vars

----------------------------------------------------------------------------

\* The operations on the allocation map and the allocations' timers.
Next ==
    \/ \E p \in Procs, k \in Keys, lifetime \in Lifetimes, u \in Users, ok \in BOOLEAN :
          create_allocation_check(p, k, lifetime, u, ok)
    \/ \E p \in Procs : create_allocation_insert(p)
    \/ \E p \in Procs, k \in Keys : delete_allocation_remove(p, k)
    \/ \E p \in Procs : delete_allocation_close(p)
    \/ \E p \in Procs, name \in Users : delete_allocations_by_username_retain(p, name)
    \/ \E p \in Procs : delete_allocations_by_username_close(p)
    \/ \E p \in Procs : close_lock(p)
    \/ \E p \in Procs : close_loop(p)
    \/ \E p \in Procs, h \in Handles : handle_close(p, h)
    \/ \E h \in Handles : lifetime_timer_fire(h)
    \/ \E h \in Handles : lifetime_timer_expire(h)

Spec == Init /\ [][Next]_vars

\* The operations on the reservation map, its expiry tasks and the clock.
\* The scheduling of the lifetime tasks: a sleep that is armed elapses, and a
\* task waiting for the tokio Mutex (first in, first out) gets it.
TimerFairness ==
    /\ \A h \in Handles : WF_vars(lifetime_timer_fire(h))
    /\ \A h \in Handles : SF_vars(lifetime_timer_expire(h))

\* The scheduling of the caller tasks: a task that holds the map lock in
\* Manager::close, or that is closing the allocations it removed, goes on.
TaskFairness ==
    /\ \A p \in Procs : WF_vars(close_loop(p))
    /\ \A p \in Procs : WF_vars(delete_allocation_close(p))
    /\ \A p \in Procs : WF_vars(delete_allocations_by_username_close(p))

FairSpec == Spec /\ TimerFairness /\ TaskFairness

ReservationNext ==
    \/ \E p \in Procs, t \in Tokens, port \in Ports : create_reservation_begin(p, t, port)
    \/ \E p \in Procs : create_reservation_insert(p)
    \/ \E tm \in res_timers : reservation_timer_expire(tm)
    \/ tick

ReservationSpec == Init /\ [][ReservationNext]_vars

----------------------------------------------------------------------------
\* The whole Manager, with one task working on the allocation map while the
\* other one reserves a port, again and again, each time after the expiry
\* task of its last reservation has run: both maps, all timers and the clock.
AllocationCaller == "p1"
ReservationCaller == "p2"

ManagerNext ==
    \/ \E k \in Keys, lifetime \in Lifetimes, u \in Users, ok \in BOOLEAN :
          create_allocation_check(AllocationCaller, k, lifetime, u, ok)
    \/ create_allocation_insert(AllocationCaller)
    \/ \E k \in Keys : delete_allocation_remove(AllocationCaller, k)
    \/ delete_allocation_close(AllocationCaller)
    \/ \E name \in Users : delete_allocations_by_username_retain(AllocationCaller, name)
    \/ delete_allocations_by_username_close(AllocationCaller)
    \/ close_lock(AllocationCaller)
    \/ close_loop(AllocationCaller)
    \/ \E h \in Handles : handle_close(AllocationCaller, h)
    \/ \E h \in Handles : lifetime_timer_fire(h)
    \/ \E h \in Handles : lifetime_timer_expire(h)
    \/ \E t \in {"t1"}, port \in {"port1"} :
          res_timers = {} /\ create_reservation_begin(ReservationCaller, t, port)
    \/ create_reservation_insert(ReservationCaller)
    \/ \E tm \in res_timers : reservation_timer_expire(tm)
    \/ tick

ManagerSpec == Init /\ [][ManagerNext]_vars

\* Shorthands of the properties below.

\* The step is one of task p's.
step_of(p) == pc'[p] # pc[p] \/ loc'[p] # loc[p]

\* Task p returns from the operation it is in.
returns(p, at) == pc[p] = at /\ pc'[p] = "done"

\* Task p is back from op with result r.
returned(p, op, r) == pc[p] = "done" /\ loc[p].op = op /\ loc[p].res = r

\* The handles of the map m with username u.
with_username(m, u) == {h \in map_values(m) : allocs[h].username = u}

----------------------------------------------------------------------------
\* C1: at most one create_allocation succeeds per FiveTuple until a delete or
\* an expiry of that key: a create_allocation that returns success never
\* finds, at its insertion, an allocation stored under its FiveTuple (which
\* would be one that succeeded before with no removal in between).
C1_AtMostOneCreateSucceeds ==
    [][\A p \in Procs :
          returns(p, "create_insert") => loc[p].key \notin DOMAIN allocations]_vars

\* C2: create_allocation with a non-zero lifetime for a FiveTuple present in
\* the map returns DuplicateFiveTuple, constructs no allocation (the relay
\* address generator is not called) and leaves the map as it is.
C2_DuplicateRejected ==
    [][\A p \in Procs, k \in Keys, u \in Users, ok \in BOOLEAN :
          (k \in DOMAIN allocations /\ create_allocation_check(p, k, "positive", u, ok))
             => /\ pc'[p] = "done"
                /\ loc'[p].res = "ErrDupeFiveTuple"
                /\ allocs' = allocs
                /\ allocations' = allocations]_vars

C2_Witness ==
    \E p \in Procs :
       /\ returned(p, "create_allocation", "ErrDupeFiveTuple")
       /\ DOMAIN allocations # {}

\* C3: when create_allocation returns Ok(h), the map holds h under the
\* FiveTuple of the call.
C3_CreatedIsFound ==
    [][\A p \in Procs :
          returns(p, "create_insert")
             => /\ loc'[p].res = "Ok"
                /\ loc[p].key \in DOMAIN allocations'
                /\ {allocations'[loc[p].key]} = loc[p].h]_vars

C3_Witness ==
    \E p \in Procs, k \in Keys :
       /\ returned(p, "create_allocation", "Ok")
       /\ k \in DOMAIN allocations
       /\ allocs[allocations[k]].returned
       /\ allocs[allocations[k]].five_tuple = k

\* C4: the removing step of delete_allocation(k) leaves k absent and every
\* other entry as it was; when k was present the removed allocation is closed
\* by the time the operation returns; when k was absent the operation returns
\* in that step, having changed and closed nothing.
C4_DeleteRemovesAndCloses ==
    [][\A p \in Procs :
          /\ \A k \in Keys :
                delete_allocation_remove(p, k)
                   => /\ k \notin DOMAIN allocations'
                      /\ DOMAIN allocations' = DOMAIN allocations \ {k}
                      /\ \A x \in DOMAIN allocations' : allocations'[x] = allocations[x]
                      /\ allocs' = allocs
                      /\ IF k \in DOMAIN allocations
                         THEN pc'[p] = "delete_close" /\ loc'[p].h = {allocations[k]}
                         ELSE pc'[p] = "done" /\ allocations' = allocations
          /\ returns(p, "delete_close")
                => /\ \A h \in loc[p].h : allocs'[h].closed
                   /\ allocations' = allocations]_vars

C4_Witness ==
    \E p \in Procs, h \in DOMAIN allocs :
       /\ returned(p, "delete_allocation", "Unit")
       /\ allocs[h].closed
       /\ allocs[h].timer = "cancelled"
       /\ h \notin map_values(allocations)

\* C5: an allocation that create_allocation returned and whose lifetime timer
\* has run to its end is not in the map and is closed.
C5_ExpiredIsGone ==
    \A h \in DOMAIN allocs :
       (allocs[h].returned /\ allocs[h].timer = "done")
          => h \notin map_values(allocations) /\ allocs[h].closed

\* C6: when Manager.close returns, every allocation that was in the map when
\* it was called is closed.
C6_CloseClosesAll ==
    [][\A p \in Procs :
          returns(p, "close_loop") => \A h \in loc[p].to_delete : allocs'[h].closed]_vars

\* C7: an allocation leaves the map on delete_allocation, on
\* delete_allocations_by_username, on lifetime expiry and on Manager.close:
\* when Manager.close returns, no FiveTuple that was in the map is in it.
C7_LiveToAbsent ==
    [][/\ \A p \in Procs, k \in Keys :
             delete_allocation_remove(p, k) => k \notin DOMAIN allocations'
       /\ \A p \in Procs, u \in Users :
             delete_allocations_by_username_retain(p, u)
                => with_username(allocations, u) \cap map_values(allocations') = {}
       /\ \A h \in DOMAIN allocs :
             lifetime_timer_expire(h) => allocs[h].five_tuple \notin DOMAIN allocations'
       /\ \A p \in Procs :
             returns(p, "close_loop")
                => \A k \in DOMAIN allocations : k \notin DOMAIN allocations']_vars

\* C8: the critical section of delete_allocations_by_username(u) removes every
\* allocation with username u and leaves none with username u in the map; when
\* the operation returns, every allocation it removed is closed and absent.
C8_UsernamePartition ==
    [][\A p \in Procs :
          /\ \A u \in Users :
                delete_allocations_by_username_retain(p, u)
                   => /\ \A k \in DOMAIN allocations' :
                            allocs[allocations'[k]].username # u
                      /\ with_username(allocations, u) \cap map_values(allocations') = {}
                      /\ IF with_username(allocations, u) = {}
                         THEN pc'[p] = "done"
                         ELSE /\ pc'[p] = "bulk_close"
                              /\ loc'[p].to_delete = with_username(allocations, u)
          /\ returns(p, "bulk_close")
                => \A h \in loc[p].to_delete :
                      allocs'[h].closed /\ h \notin map_values(allocations')]_vars

C8_Witness ==
    \E p \in Procs :
       /\ pc[p] = "bulk_close"
       /\ loc[p].pending # loc[p].to_delete
       /\ \A h \in loc[p].to_delete : h \notin map_values(allocations)
       /\ \E h \in loc[p].to_delete : allocs[h].closed /\ allocs[h].timer = "cancelled"

\* C9: delete_allocations_by_username(u) keeps every entry whose username is
\* not u under its FiveTuple with its handle, closes no such allocation, and
\* shrinks the map by exactly the number of entries with username u.
C9_OtherUsersUndisturbed ==
    [][\A p \in Procs :
          /\ \A u \in Users :
                delete_allocations_by_username_retain(p, u)
                   => /\ \A k \in DOMAIN allocations :
                            allocs[allocations[k]].username # u
                               => k \in DOMAIN allocations'
                                  /\ allocations'[k] = allocations[k]
                      /\ Cardinality(DOMAIN allocations')
                            = Cardinality(DOMAIN allocations)
                              - Cardinality({k \in DOMAIN allocations :
                                                allocs[allocations[k]].username = u})
                      /\ allocs' = allocs
          /\ (pc[p] = "bulk_close" /\ step_of(p))
                => /\ allocations' = allocations
                   /\ \A h \in DOMAIN allocs :
                         allocs[h].username # loc[p].user => allocs'[h] = allocs[h]]_vars

C9_Witness ==
    \E p \in Procs, k \in DOMAIN allocations :
       /\ pc[p] = "bulk_close"
       /\ loc[p].to_delete # {}
       /\ allocs[allocations[k]].username # loc[p].user
       /\ ~allocs[allocations[k]].closed

\* C10: create_reservation(t, p) returns with p stored under t; a token is in
\* the map only if it was reserved, and no longer once more than 30 seconds
\* have passed since it was last reserved.
C10_ReservationLifetime ==
    /\ [][\A p \in Procs :
             returns(p, "reserve_insert")
                => /\ loc[p].token \in DOMAIN reservations'
                   /\ {reservations'[loc[p].token]} = loc[p].port]_vars
    /\ [](\A t \in Tokens :
             /\ t \notin DOMAIN last_insert => get_reservation(t) = {}
             /\ (t \in DOMAIN last_insert /\ now > last_insert[t] + RESERVATION_SECS)
                   => get_reservation(t) = {})

C10_Witness ==
    \E t \in DOMAIN last_insert :
       /\ now > last_insert[t] + RESERVATION_SECS
       /\ get_reservation(t) = {}
       /\ \E u \in Tokens : u \notin DOMAIN last_insert

\* C11: a reservation stays retrievable until 30 seconds after its own
\* insertion: when a token is reserved again before its first reservation has
\* expired, the expiry task of the older reservation does not remove the newer
\* one.
C11_NewerReservationSurvives ==
    \A t \in DOMAIN last_insert :
       now < last_insert[t] + RESERVATION_SECS => get_reservation(t) # {}

\* C12: create_allocation with a zero lifetime returns LifetimeZero for every
\* FiveTuple, in the map or not (the lifetime check comes before the duplicate
\* check), constructs no allocation (the relay address generator is not
\* called) and leaves the map as it is.
C12_LifetimeZeroFirst ==
    [][\A p \in Procs :
          (idle(p) /\ step_of(p))
             => \A k \in Keys, u \in Users, ok \in BOOLEAN :
                   create_allocation_check(p, k, "zero", u, ok)
                      => /\ pc'[p] = "done"
                         /\ loc'[p].op = "create_allocation"
                         /\ loc'[p].res = "ErrLifetimeZero"
                         /\ allocs' = allocs
                         /\ allocations' = allocations]_vars

\* The only task that ever called an operation filled the map with every
\* FiveTuple and then got LifetimeZero, for a FiveTuple that was present.
C12_Witness ==
    \E p \in Procs :
       /\ returned(p, "create_allocation", "ErrLifetimeZero")
       /\ DOMAIN allocations = Keys
       /\ \A q \in Procs \ {p} : loc[q].op = "none"

\* C13: when allocate_conn fails, create_allocation returns that error,
\* constructs and starts no allocation (no lifetime timer, no packet handler)
\* and inserts nothing, so the FiveTuple is still absent and a later
\* create_allocation for it is not rejected as a duplicate.
C13_RelayFailureLeavesNothing ==
    [][\A p \in Procs, k \in Keys, u \in Users :
          (step_of(p) /\ k \notin DOMAIN allocations
              /\ create_allocation_check(p, k, "positive", u, FALSE))
             => /\ pc'[p] = "done"
                /\ loc'[p].op = "create_allocation"
                /\ loc'[p].res = "ErrRelay"
                /\ allocs' = allocs
                /\ allocations' = allocations
                /\ ~is_duplicate(k)']_vars

\* A task got the generator's error while no allocation had been constructed,
\* and the other task's create_allocation then went through.
C13_Witness ==
    \E p, q \in Procs :
       /\ returned(p, "create_allocation", "ErrRelay")
       /\ returned(q, "create_allocation", "Ok")
       /\ Cardinality(DOMAIN allocs) = 1
       /\ DOMAIN allocations # {}

\* C14: the relay socket of every allocation the manager constructed is
\* released exactly once, whatever delete_allocation,
\* delete_allocations_by_username, Manager.close, closes through a handle and
\* lifetime expiries do: never twice (a closed allocation has one release, and
\* a further close releases nothing), and never zero times (an allocation that
\* is still open has its lifetime timer pending, and is released in the end).
C14_ReleasedExactlyOnce ==
    /\ [](\A h \in DOMAIN allocs :
             /\ allocs[h].releases <= 1
             /\ allocs[h].closed <=> allocs[h].releases = 1
             /\ ~allocs[h].closed => allocs[h].timer \in {"armed", "fired"})
    /\ \A h \in Handles :
          (h \in DOMAIN allocs) ~> (h \in DOMAIN allocs /\ allocs[h].releases = 1)

\* One allocation was released by its expiry, another by a close that
\* cancelled its timer, and a second close of an allocation was refused.
C14_Witness ==
    \E p \in Procs, h1, h2 \in DOMAIN allocs :
       /\ returned(p, "handle_close", "ErrClosed")
       /\ allocs[h1].timer = "done" /\ allocs[h1].releases = 1
       /\ allocs[h2].timer = "cancelled" /\ allocs[h2].releases = 1

\* C15: for a datagram from peer P the packet handler looks for a channel
\* bind of P first: when there is one, the client gets a ChannelData frame
\* with the bound number and the payload as it came, also when P's IP has a
\* permission; otherwise, when P's IP has a permission, the client gets a STUN
\* Data indication from P whose DATA is the payload; otherwise nothing.
C15_ChannelBindBeforePermission ==
    [][relayed' # relayed
          => \A r \in relayed' :
                IF channel_of(r.peer) # {}
                THEN /\ is_channel_data(r.out)
                     /\ ~is_message(r.out)
                     /\ {channel_data_number(r.out)} = channel_of(r.peer)
                     /\ channel_data_data(r.out) = r.payload
                ELSE IF r.peer.ip \in permissions
                THEN /\ is_message(r.out)
                     /\ ~is_channel_data(r.out)
                     /\ read_u16(r.out, 1) = DATA_INDICATION
                     /\ stun_attributes(r.out, STUN_HEADER_SIZE + 1, ATTR_DATA)
                           = <<r.payload>>
                     /\ \E v \in {stun_attributes(r.out, STUN_HEADER_SIZE + 1,
                                                  ATTR_XOR_PEER_ADDRESS)} :
                           Len(v) = 1 /\ xor_peer_address_decode(v[1]) = r.peer
                ELSE r.out = <<>>]_vars

\* A peer with both a channel bind and a permission for its IP sent a payload
\* that ends in a zero byte, and the client got ChannelData.
C15_Witness ==
    \E r \in relayed :
       /\ channel_of(r.peer) # {}
       /\ r.peer.ip \in permissions
       /\ is_channel_data(r.out)
       /\ Len(r.payload) = 1 /\ r.payload[1] = 0

\* C16: no Manager operation holds the allocation-map lock while it awaits
\* the close of an allocation: whenever a task is in the closing part of
\* delete_allocation, of delete_allocations_by_username or of Manager.close,
\* the lock is free for other tasks.
C16_NoLockAcrossClose ==
    \A p \in Procs :
       pc[p] \in {"delete_close", "bulk_close", "close_loop"} => lock_free

\* C17: delete_allocations_by_username closes, after its critical section and
\* without the lock, the allocations that section removed and nothing else: a
\* create_allocation for a FiveTuple it removed goes through while the closes
\* are under way, and no step of the closing part removes an entry or touches
\* an allocation that was not removed, such as one inserted meanwhile.
C17_BulkDeleteSparesNewcomers ==
    [][\A p \in Procs :
          /\ (pc[p] = "bulk_close" /\ step_of(p))
                => /\ allocations' = allocations
                   /\ \A h \in DOMAIN allocs \ loc[p].to_delete : allocs'[h] = allocs[h]
          /\ pc[p] = "bulk_close"
                => /\ p \notin lock
                   /\ \A q \in Procs \ {p}, u \in Users, h \in loc[p].to_delete :
                         (step_of(q) /\ allocs[h].five_tuple \notin DOMAIN allocations
                             /\ create_allocation_check(q, allocs[h].five_tuple,
                                                        "positive", u, TRUE))
                            => pc'[q] = "create_insert"]_vars

\* While the bulk delete is still closing, the FiveTuple of a victim holds a
\* new allocation of the same user, returned by create_allocation and open.
C17_Witness ==
    \E p, q \in Procs, h \in DOMAIN allocs :
       /\ pc[p] = "bulk_close"
       /\ h \in loc[p].to_delete
       /\ returned(q, "create_allocation", "Ok")
       /\ allocs[h].five_tuple \in DOMAIN allocations
       /\ LET b == allocations[allocs[h].five_tuple] IN
             /\ b \notin loc[p].to_delete
             /\ allocs[b].username = loc[p].user
             /\ allocs[b].returned
             /\ ~allocs[b].closed

\* C18: delete_allocation and delete_allocations_by_username do not fail when
\* the close of a removed allocation fails: the closing part always returns
\* unit, the removed allocations stay out of the map, and the bulk delete
\* still closes every allocation it removed.
C18_CloseErrorsSwallowed ==
    [][\A p \in Procs :
          /\ (pc[p] = "delete_close" /\ step_of(p))
                => /\ pc'[p] = "done"
                   /\ loc'[p].res = "Unit"
                   /\ \A h \in loc[p].h :
                         allocs'[h].closed /\ h \notin map_values(allocations')
          /\ (pc[p] = "bulk_close" /\ step_of(p))
                => /\ loc'[p].res \in {"pending", "Unit"}
                   /\ pc'[p] = "done"
                         => \A h \in loc[p].to_delete :
                               allocs'[h].closed /\ h \notin map_values(allocations')]_vars

\* The bulk delete removed two allocations, one of which a caller had closed
\* through its handle: its close failed, and the bulk delete went on to the
\* other one.
C18_Witness ==
    \E p, q \in Procs, h1, h2 \in DOMAIN allocs :
       /\ pc[p] = "bulk_close"
       /\ loc[p].to_delete = {h1, h2}
       /\ loc[p].pending = {h2}
       /\ h1 # h2
       /\ allocs[h1].closed /\ allocs[h1].timer = "cancelled"
       /\ ~allocs[h2].closed
       /\ returned(q, "handle_close", "Ok")

\* C20: the expiry of allocation A's lifetime timer removes and closes A
\* only: every entry of the map that holds another allocation stays, also
\* under A's FiveTuple, and no other allocation is changed.
C20_ExpiryRemovesOnlyItself ==
    [][\A h \in DOMAIN allocs :
          (allocs[h].timer = "fired" /\ allocs'[h].timer = "done")
             => /\ \A k \in DOMAIN allocations :
                      allocations[k] # h
                         => k \in DOMAIN allocations' /\ allocations'[k] = allocations[k]
                /\ \A b \in DOMAIN allocs \ {h} : allocs'[b] = allocs[b]]_vars

\* C19: the reservation map and the allocation map are independent: a step of
\* create_reservation or of a reservation expiry task, also one after
\* Manager.close, changes neither the allocation map nor an allocation, and a
\* step of create_allocation, delete_allocation,
\* delete_allocations_by_username, Manager.close or a lifetime timer changes
\* neither the reservation map nor its expiry tasks.
C19_MapsIndependent ==
    [][/\ \A p \in Procs :
             (step_of(p) /\ loc'[p].op = "create_reservation")
                => allocations' = allocations /\ allocs' = allocs /\ lock' = lock
       /\ (reservations' # reservations \/ res_timers' # res_timers)
             => allocations' = allocations /\ allocs' = allocs /\ lock' = lock
       /\ \A p \in Procs :
             (step_of(p) /\ loc'[p].op \in {"create_allocation", "delete_allocation",
                                             "delete_allocations_by_username", "close"})
                => reservations' = reservations /\ res_timers' = res_timers
       /\ (allocations' # allocations \/ allocs' # allocs \/ lock' # lock)
             => reservations' = reservations /\ res_timers' = res_timers]_vars

\* Manager.close has returned with an allocation still in the map, and a
\* reservation has been made and has expired.
C19_Witness ==
    /\ returned(AllocationCaller, "close", "Ok")
    /\ DOMAIN allocations # {}
    /\ returned(ReservationCaller, "create_reservation", "Unit")
    /\ "t1" \in DOMAIN last_insert
    /\ get_reservation("t1") = {}
    /\ res_timers = {}

\* C21: Manager.close always terminates: a task inside its loop can always
\* take its next step, also while lifetime tasks whose sleep is over wait for
\* the map lock it holds (close waits for no timer task), and under fair
\* scheduling it returns in the end.
C21_CloseTerminates ==
    /\ [](\A p \in Procs : pc[p] = "close_loop" => ENABLED close_loop(p))
    /\ \A p \in Procs : (pc[p] = "close_loop") ~> (pc[p] = "done")

\* Manager.close holds the lock, has closed one allocation and has yet to
\* close another one, whose lifetime task is waiting for the lock.
C21_Witness ==
    \E p \in Procs, h \in DOMAIN allocs :
       /\ pc[p] = "close_loop"
       /\ lock = {p}
       /\ h \in loc[p].pending
       /\ loc[p].pending # loc[p].to_delete
       /\ allocs[h].timer = "fired"

====
